---- MODULE Spec2Model ----
(***************************************************************************)
(* A model of the Gemini chat client: the App component (src/App.tsx, in   *)
(* its base and its themed revision) and the AI service                    *)
(* (generateGeminiResponse, src/types.ts).                                 *)
(*                                                                         *)
(* Texts are sequences of one-character strings, so that trim,             *)
(* toLowerCase and includes are computed as the code computes them.  The   *)
(* long French literals of the source are shortened to a few characters;   *)
(* each definition names the literal it stands for.                        *)
(***************************************************************************)
EXTENDS Integers, Sequences, FiniteSets, TLC

(***************************************************************************)
(* Bounds of the model.                                                    *)
(***************************************************************************)
\* the longest message list a send is made on
MaxMessages == 3
\* the last value of the clock
MaxClock == 1
\* the most requests in flight (the busy flag allows one)
MaxInflight == 2
\* the most files pending: attached, or selected and still being read
MaxPending == 2

(***************************************************************************)
(* Text: String.prototype.trim, toLowerCase, includes, and the || of a     *)
(* string with a default.                                                  *)
(***************************************************************************)
IsSpace(c) == c = " "

UpperLetters == <<"A", "B", "D", "H", "O", "U">>
LowerLetters == <<"a", "b", "d", "h", "o", "u">>

LowerChar(c) ==
  IF \E i \in 1..Len(UpperLetters) : UpperLetters[i] = c
  THEN LowerLetters[CHOOSE i \in 1..Len(UpperLetters) : UpperLetters[i] = c]
  ELSE c

ToLowerCase(s) == [i \in 1..Len(s) |-> LowerChar(s[i])]

RECURSIVE TrimStart(_)
TrimStart(s) ==
  IF s # <<>> /\ IsSpace(Head(s)) THEN TrimStart(Tail(s)) ELSE s

RECURSIVE TrimEnd(_)
TrimEnd(s) ==
  IF s # <<>> /\ IsSpace(s[Len(s)]) THEN TrimEnd(SubSeq(s, 1, Len(s) - 1)) ELSE s

Trim(s) == TrimEnd(TrimStart(s))

\* s.includes(t): t occurs in s as a contiguous run (the empty t always does)
Includes(s, t) ==
  \E i \in 0..(Len(s) - Len(t)) : SubSeq(s, i + 1, i + Len(t)) = t

\* a || b on strings: the empty string is falsy
OrElse(a, b) == IF a # <<>> THEN a ELSE b

(***************************************************************************)
(* The literals of the source, shortened.                                  *)
(***************************************************************************)
\* "Bonjour ! Je suis votre assistant Gemini Pro. Je peux analyser ..."
WelcomeTextBase == <<"B", "o", "n", "!">>
\* "Bonjour ! Je suis votre assistant Gemini Pro. Comment puis-je ..."
WelcomeTextThemed == <<"B", "o", "n", "?">>
\* "Historique effacé. Je suis prêt pour une nouvelle discussion !"
ClearedText == <<"H", "i", "s", "t">>
\* "[MODE DÉTECTION] " and "[DÉTECTION] "
PrefixDetectionBase == <<"[", "M", "D", "]", " ">>
PrefixDetectionThemed == <<"[", "D", "]", " ">>
\* "[MODE OCR] " and "[OCR] "
PrefixOcrBase == <<"[", "M", "O", "]", " ">>
PrefixOcrThemed == <<"[", "O", "]", " ">>
\* "Détection d'objets", "Extraction de texte", "Analyse de fichier"
DefaultDetectionText == <<"D", "e", "t">>
DefaultOcrText == <<"E", "x", "t">>
DefaultFileText == <<"A", "n", "a">>
\* "Désolé, une erreur est survenue lors de la génération de la réponse. ..."
ErrSorryText == <<"D", "e", "s", "o">>
\* "Une erreur est survenue lors de la communication avec l'IA."
ErrCommText == <<"U", "n", "e">>
\* "Les fichiers sont trop volumineux pour être analysés d'un coup."
ErrTooLargeText == <<"L", "e", "s">>
\* "Désolé, je n'ai pas pu générer de réponse intelligible."
FallbackText == <<"p", "a", "s">>
\* "ACTION REQUISE : Analyse l'image et effectue une détection d'objets ..."
DetectInstruction == <<"A", "R", "D">>
\* "\n\nNotes de l'utilisateur : "
DetectNotes == <<":", "N", ":">>
\* "ACTION REQUISE : Effectue une reconnaissance optique de caractères ..."
OcrInstruction == <<"A", "R", "O">>
\* "\n\nContexte supplémentaire de l'utilisateur : "
OcrContext == <<":", "C", ":">>
\* "Analyse cette image ou ce document."
AnalysePrompt == <<"A", "c", "i">>
\* "Bonjour"
HelloPrompt == <<"B", "j">>

(***************************************************************************)
(* Optional values: a field that may be undefined is a sequence of length  *)
(* 0 (undefined) or 1.                                                     *)
(***************************************************************************)
None == <<>>
Some(x) == <<x>>

(***************************************************************************)
(* Messages and attachments (types.ts).                                    *)
(***************************************************************************)
RoleUser == "user"
RoleModel == "model"

Msg(id, role, text, atts, ts) ==
  [id |-> id, role |-> role, text |-> text, attachments |-> atts, timestamp |-> ts]

Attachment(name, mimeType, data, previewUrl) ==
  [name |-> name, mimeType |-> mimeType, data |-> data, previewUrl |-> previewUrl]

(***************************************************************************)
(* JSON documents, as JSON.stringify writes them and JSON.parse reads      *)
(* them: an object is the sequence of its <<key, value>> pairs in          *)
(* insertion order, and a key whose value is undefined is not written.     *)
(***************************************************************************)
JStr(s) == [t |-> "string", s |-> s]
JNum(n) == [t |-> "number", n |-> n]
JArr(a) == [t |-> "array", a |-> a]
JObj(o) == [t |-> "object", o |-> o]
JNull == [t |-> "null"]

JsonOfAttachment(a) ==
  JObj(<< <<"name", JStr(a.name)>>, <<"mimeType", JStr(a.mimeType)>>,
          <<"data", JStr(a.data)>>, <<"previewUrl", JStr(a.previewUrl)>> >>)

\* mutant: an empty attachment list is written as if undefined
JsonOfMessageDroppingEmpty(m) ==
  JObj(<< <<"id", JStr(m.id)>>, <<"role", JStr(m.role)>>, <<"text", JStr(m.text)>> >>
       \o (IF m.attachments = None \/ m.attachments = Some(<<>>)
           THEN <<>>
           ELSE << <<"attachments",
                     JArr([i \in 1..Len(m.attachments[1]) |->
                             JsonOfAttachment(m.attachments[1][i])])>> >>)
       \o << <<"timestamp", JNum(m.timestamp)>> >>)

JsonOfMessage(m) ==
  JObj(<< <<"id", JStr(m.id)>>, <<"role", JStr(m.role)>>, <<"text", JStr(m.text)>> >>
       \o (IF m.attachments = None
           THEN <<>>
           ELSE << <<"attachments",
                     JArr([i \in 1..Len(m.attachments[1]) |->
                             JsonOfAttachment(m.attachments[1][i])])>> >>)
       \o << <<"timestamp", JNum(m.timestamp)>> >>)

\* JSON.stringify(messages)
Stringify(msgs) == JArr([i \in 1..Len(msgs) |-> JsonOfMessage(msgs[i])])

\* obj[key]: the value of the pair with that key, undefined when there is none
HasKey(obj, key) == \E i \in 1..Len(obj.o) : obj.o[i][1] = key
GetKey(obj, key) == obj.o[CHOOSE i \in 1..Len(obj.o) : obj.o[i][1] = key][2]

AttachmentOfJson(j) ==
  Attachment(GetKey(j, "name").s, GetKey(j, "mimeType").s,
             GetKey(j, "data").s, GetKey(j, "previewUrl").s)

MessageOfJson(j) ==
  Msg(GetKey(j, "id").s, GetKey(j, "role").s, GetKey(j, "text").s,
      IF HasKey(j, "attachments")
      THEN Some([i \in 1..Len(GetKey(j, "attachments").a) |->
                   AttachmentOfJson(GetKey(j, "attachments").a[i])])
      ELSE None,
      GetKey(j, "timestamp").n)

\* JSON.parse of a stored message list
ParseMessages(doc) == [i \in 1..Len(doc.a) |-> MessageOfJson(doc.a[i])]

\* a value that is no array, held in the messages state as it was parsed
\* (the state is a sequence in this module, so the value is wrapped)
NotAList(value) == <<[raw |-> value]>>

\* the messages state is an array
IsArray(msgs) == \A i \in 1..Len(msgs) : "raw" \notin DOMAIN msgs[i]

\* JSON.parse(saved) as the initializer returns it: the messages of a
\* stored array, and null, a number or an object as they are
JsonParse(doc) ==
  IF doc.t = "array" THEN ParseMessages(doc) ELSE NotAList(doc)

(***************************************************************************)
(* localStorage under STORAGE_KEY: no item, the empty string, a string     *)
(* that is no JSON text, or a JSON text.                                   *)
(***************************************************************************)
StoreNone == [kind |-> "none"]
StoreEmpty == [kind |-> "empty"]
StoreGarbage == [kind |-> "garbage"]
StoreJson(doc) == [kind |-> "json", doc |-> doc]

WelcomeText(v) == IF v = "base" THEN WelcomeTextBase ELSE WelcomeTextThemed

WelcomeMessage(v, t) == Msg("welcome", RoleModel, WelcomeText(v), None, t)

\* mutant: a value that does not parse leaves the conversation empty
LoadMessagesParseFatal(store, v, t) ==
  IF store.kind = "json"
  THEN ParseMessages(store.doc)
  ELSE IF store.kind = "garbage" THEN <<>> ELSE <<WelcomeMessage(v, t)>>

\* the initializer of the messages state: getItem, JSON.parse inside try,
\* the welcome message when nothing usable is stored
LoadMessages(store, v, t) ==
  IF store.kind = "json"
  THEN JsonParse(store.doc)
  ELSE <<WelcomeMessage(v, t)>>

\* the path the initializer took: the stored list was parsed, JSON.parse
\* threw and the catch block logged it, or nothing (or '') was stored
StartupOp(store) ==
  IF store.kind = "json" THEN "mount"
  ELSE IF store.kind = "garbage" THEN "mountCaught"
  ELSE "mountDefault"

\* the persistence effect: localStorage.setItem(STORAGE_KEY, JSON.stringify(messages))
PersistEffect(msgs) == StoreJson(Stringify(msgs))

\* the first render ends in filteredMessages.map(...), which throws on a
\* value that is no array: the component is unmounted before any effect
\* runs and the stored item stays as it was
StorageAfterMount(store, msgs) ==
  IF IsArray(msgs) THEN PersistEffect(msgs) ELSE store

(***************************************************************************)
(* The AI service (generateGeminiResponse).                                *)
(***************************************************************************)
TextPart(s) == [t |-> "text", text |-> s]
InlinePart(a) == [t |-> "inlineData", mimeType |-> a.mimeType, data |-> a.data]

AttachmentParts(atts) == [i \in 1..Len(atts) |-> InlinePart(atts[i])]

\* formatMessageToContent: the text part when the text is not empty, one
\* inlineData part per attachment, a single " " part when there is neither
FormatMessageToContent(msg) ==
  LET textParts == IF msg.text # <<>> THEN <<TextPart(msg.text)>> ELSE <<>>
      attParts == IF msg.attachments # None
                  THEN AttachmentParts(msg.attachments[1])
                  ELSE <<>>
      parts == textParts \o attParts
  IN [role |-> IF msg.role = RoleUser THEN "user" ELSE "model",
      parts |-> IF parts = <<>> THEN <<TextPart(<<" ">>)>> ELSE parts]

\* mutant: the OCR flag is looked at first
FinalPromptOcrFirst(prompt, atts, ocr, det) ==
  LET trimmed == Trim(prompt)
  IN IF ocr
     THEN IF trimmed # <<>>
          THEN OcrInstruction \o OcrContext \o trimmed
          ELSE OcrInstruction
     ELSE IF det
     THEN IF trimmed # <<>>
          THEN DetectInstruction \o DetectNotes \o trimmed
          ELSE DetectInstruction
     ELSE IF trimmed = <<>> /\ atts # <<>>
     THEN AnalysePrompt
     ELSE trimmed

\* finalPrompt, before the "|| Bonjour" of the text part
FinalPrompt(prompt, atts, ocr, det) ==
  LET trimmed == Trim(prompt)
  IN IF det
     THEN IF trimmed # <<>>
          THEN DetectInstruction \o DetectNotes \o trimmed
          ELSE DetectInstruction
     ELSE IF ocr
     THEN IF trimmed # <<>>
          THEN OcrInstruction \o OcrContext \o trimmed
          ELSE OcrInstruction
     ELSE IF trimmed = <<>> /\ atts # <<>>
     THEN AnalysePrompt
     ELSE trimmed

\* the parts of the current turn
CurrentParts(prompt, atts, ocr, det) ==
  <<TextPart(OrElse(FinalPrompt(prompt, atts, ocr, det), HelloPrompt))>>
    \o AttachmentParts(atts)

\* contents: history.map(formatMessageToContent), then the current turn
RequestContents(prompt, history, atts, ocr, det) ==
  [i \in 1..Len(history) |-> FormatMessageToContent(history[i])]
    \o <<[role |-> "user", parts |-> CurrentParts(prompt, atts, ocr, det)]>>

\* mutant: the temperature does not depend on the mode
GenerateContentRequestOneTemperature(prompt, history, atts, ocr, det) ==
  [contents |-> RequestContents(prompt, history, atts, ocr, det),
   systemDetection |-> det,
   systemOcr |-> ocr,
   temperature |-> "0.7",
   topP |-> "0.95",
   topK |-> "64"]

\* the argument of ai.models.generateContent
GenerateContentRequest(prompt, history, atts, ocr, det) ==
  [contents |-> RequestContents(prompt, history, atts, ocr, det),
   systemDetection |-> det,
   systemOcr |-> ocr,
   temperature |-> IF ocr \/ det THEN "0.2" ELSE "0.7",
   topP |-> "0.95",
   topK |-> "64"]

\* What the API can do with a request: answer with response.text undefined,
\* empty or a text, or throw an error whose message is undefined, is
\* "413", holds "413" inside a longer text, or does not hold it.
ResponseTexts == {None, Some(<<>>), Some(<<"o", "k">>)}
ErrorMessages ==
  {None, Some(<<"4", "1", "3">>), Some(<<"e", "4", "1", "3", "e">>),
   Some(<<"n", "e", "t">>)}
ApiOutcomes ==
  [kind : {"response"}, text : ResponseTexts]
    \cup [kind : {"error"}, message : ErrorMessages]

\* mutant: response.text is returned as it is
ServiceResultNoFallback(outcome) ==
  IF outcome.kind = "response"
  THEN [kind |-> "resolved",
        text |-> IF outcome.text = None THEN <<>> ELSE outcome.text[1]]
  ELSE [kind |-> "rejected",
        text |-> IF outcome.message # None
                    /\ Includes(outcome.message[1], <<"4", "1", "3">>)
                 THEN ErrTooLargeText
                 ELSE ErrCommText]

\* mutant: the catch block rethrows the error it caught
ServiceResultRethrown(outcome) ==
  IF outcome.kind = "response"
  THEN [kind |-> "resolved",
        text |-> OrElse(IF outcome.text = None THEN <<>> ELSE outcome.text[1],
                        FallbackText)]
  ELSE [kind |-> "rejected",
        text |-> IF outcome.message = None THEN <<>> ELSE outcome.message[1]]

\* what generateGeminiResponse settles with: resolved with a text, or
\* rejected with an Error carrying one of its two messages
ServiceResult(outcome) ==
  IF outcome.kind = "response"
  THEN [kind |-> "resolved",
        text |-> OrElse(IF outcome.text = None THEN <<>> ELSE outcome.text[1],
                        FallbackText)]
  ELSE [kind |-> "rejected",
        text |-> IF outcome.message # None
                    /\ Includes(outcome.message[1], <<"4", "1", "3">>)
                 THEN ErrTooLargeText
                 ELSE ErrCommText]

(***************************************************************************)
(* Files the user can select, and FileReader.readAsDataURL.                *)
(***************************************************************************)
FilePicture == [name |-> "a.png", type |-> "image/png", payload |-> "QQ==", readable |-> TRUE]
FileBroken == [name |-> "b.txt", type |-> "text/plain", payload |-> "", readable |-> FALSE]

FileNote == [name |-> "c.txt", type |-> "text/plain", payload |-> "Qg==", readable |-> TRUE]

\* the selections of the file input (it takes several files at once)
Selections ==
  {<<FilePicture>>, <<FileBroken>>, <<FileBroken, FilePicture>>, <<FilePicture, FileNote>>}

\* reader.result: the pieces of the data URL, the commas being pieces
DataUrl(file) == <<"data:" \o file.type \o ";base64", ",", file.payload>>

HasComma(result) == \E i \in 1..Len(result) : result[i] = ","
FirstComma(result) == CHOOSE i \in 1..Len(result) :
                        result[i] = "," /\ \A j \in 1..(i - 1) : result[j] # ","

RECURSIVE JoinUntilComma(_)
JoinUntilComma(pieces) ==
  IF pieces = <<>> \/ Head(pieces) = ","
  THEN ""
  ELSE Head(pieces) \o JoinUntilComma(Tail(pieces))

\* result.split(',')[1]
SplitComma1(result) == JoinUntilComma(SubSeq(result, FirstComma(result) + 1, Len(result)))

\* mutant: the part before the comma is taken, split(',')[0]
FileToBase64Header(result) == JoinUntilComma(result)

\* fileToBase64 on a result that holds a comma (a data URL does)
FileToBase64(result) == SplitComma1(result)

NewAttachment(file) ==
  Attachment(file.name, file.type, FileToBase64(DataUrl(file)), "blob:" \o file.name)

(***************************************************************************)
(* What the user can type, dictate and search for.                         *)
(***************************************************************************)
InputTexts == {<<>>, <<" ">>, <<"A", "b">>}

\* a SpeechRecognitionAlternative
Alternative(t) == [transcript |-> t]

\* the result events of the recognizer: event.results, each result a list
\* of alternatives (interim results come as events of their own)
SpeechEvents ==
  { << <<Alternative(<<"o", "k">>), Alternative(<<"o", "c">>)>> >>,
    << <<Alternative(<<"o">>)>>, <<Alternative(<<"k">>), Alternative(<<"c">>)>> >>,
    << <<Alternative(<<"A">>)>>, <<Alternative(<<"b">>), Alternative(<<"A">>)>> >> }

\* Array.prototype.join('')
RECURSIVE JoinTexts(_)
JoinTexts(texts) ==
  IF texts = <<>> THEN <<>> ELSE Head(texts) \o JoinTexts(Tail(texts))

\* mutant: the results are joined last to first
TranscriptReversed(event) ==
  JoinTexts([i \in 1..Len(event) |-> event[Len(event) + 1 - i][1].transcript])

\* Array.from(event.results).map(result => result[0].transcript).join('')
Transcript(event) ==
  JoinTexts([i \in 1..Len(event) |-> event[i][1].transcript])

\* what the user can enter in the search field
SearchTerms == {<<>>, <<" ">>, <<"a">>, <<"O">>, <<" ", "a">>}

(***************************************************************************)
(* The state of the application.                                           *)
(***************************************************************************)
VARIABLES
  version,        \* which revision of App.tsx runs: "base" or "themed"
  messages,       \* useState<Message[]>
  inputText,      \* useState('')
  isLoading,      \* useState(false): the busy flag
  attachments,    \* useState<Attachment[]>([]): the pending attachments
  searchTerm,     \* useState('')
  isSearchActive, \* useState(false)
  ocrMode,        \* useState(false)
  detectionMode,  \* useState(false)
  isListening,    \* useState(false)
  recognizer,     \* the browser's SpeechRecognition object behind recognitionRef
  isSettingsOpen, \* useState(false), themed revision: the settings dialog
  theme,          \* useState<ThemeType>, themed revision
  themeStorage,   \* localStorage[THEME_KEY]
  storage,        \* localStorage[STORAGE_KEY]
  inflight,       \* the generateContent requests that have not settled
  uploads,        \* the handleFileUpload calls that have not finished
  now,            \* Date.now()
  lastOp          \* the handler that ran last

vars == <<version, messages, inputText, isLoading, attachments, searchTerm,
          isSearchActive, ocrMode, detectionMode, isListening, recognizer,
          isSettingsOpen, theme, themeStorage,
          storage, inflight, uploads, now, lastOp>>

\* the variables of the program
progVars == <<version, messages, inputText, isLoading, attachments, searchTerm,
              isSearchActive, ocrMode, detectionMode, isListening, recognizer,
              isSettingsOpen, theme, themeStorage,
              storage, inflight, uploads, now>>

\* the settings dialog, the theme and its storage key
themeVars == <<isSettingsOpen, theme, themeStorage>>

\* ThemeType, the identifiers of the theme buttons
ThemeIds == {"light", "dark", "ocean", "sunset", "forest"}

\* what THEME_KEY can hold when the page is loaded
StoredThemes == {None, Some(""), Some("dark"), Some("ocean")}

\* mutant: the stored theme is not read
ThemeAtStartupDefault(stored) == "light"

\* the initializer of theme: localStorage.getItem(THEME_KEY) || 'light'
ThemeAtStartup(stored) ==
  IF stored = None \/ stored = Some("") THEN "light" ELSE stored[1]

\* the effect on [theme]: localStorage.setItem(THEME_KEY, theme)
ThemeEffect(t) == Some(t)

\* a history an earlier session left in storage: it was closed while the
\* request of its first turn was in flight
EarlierHistory ==
  << Msg("welcome", RoleModel, WelcomeTextBase, None, -2),
     Msg("-1", RoleUser, <<"A", "b">>, Some(<<NewAttachment(FilePicture)>>), -1) >>

\* what STORAGE_KEY can hold at startup: nothing, the empty string, text that
\* is not JSON, the history of an earlier session, a list with no message
InitialStores ==
  {StoreNone, StoreEmpty, StoreGarbage, StoreJson(Stringify(EarlierHistory)),
   StoreJson(Stringify(<<>>))}

\* the state once the component is mounted and its effects have run: the
\* initializer of messages, the defaults of the other states, and the
\* persistence effect of the first render
Init ==
  /\ version \in {"base", "themed"}
  /\ now = 0
  /\ \E store \in InitialStores :
       /\ messages = LoadMessages(store, version, now)
       /\ storage = PersistEffect(LoadMessages(store, version, now))
       /\ lastOp = StartupOp(store)
  /\ inputText = <<>>
  /\ isLoading = FALSE
  /\ attachments = <<>>
  /\ searchTerm = <<>>
  /\ isSearchActive = FALSE
  /\ ocrMode = FALSE
  /\ detectionMode = FALSE
  /\ isListening = FALSE
  /\ recognizer = "idle"
  /\ inflight = <<>>
  /\ uploads = <<>>
  /\ isSettingsOpen = FALSE
  /\ theme = ThemeAtStartup(None)
  /\ themeStorage = IF version = "themed" THEN ThemeEffect(theme) ELSE None

(***************************************************************************)
(* Helpers of the handlers.                                                *)
(***************************************************************************)
\* mutant: the new message is put in front
PrependMessage(prev, m) == <<m>> \o prev

\* setMessages(prev => [...prev, m])
AppendMessage(prev, m) == Append(prev, m)

\* the effect on [isSearchActive]: when search closes, setSearchTerm('')
SearchTermAfter(active, term) == IF isSearchActive /\ ~active THEN <<>> ELSE term

\* mutant: the elements before the index go as well
RemoveUpTo(seq, i) == SubSeq(seq, i + 1, Len(seq))

\* prev.filter((_, i) => i !== idx), the index counted from 1
RemoveAt(seq, i) == SubSeq(seq, 1, i - 1) \o SubSeq(seq, i + 1, Len(seq))

\* recognition.stop(): a started recognizer winds down, an idle one ignores it
RecognizerStop(r) == IF r \in {"starting", "active"} THEN "stopping" ELSE r

\* mutant: the term is compared as typed
FilteredMessagesCaseSensitive(msgs, term) ==
  IF Trim(term) = <<>>
  THEN msgs
  ELSE SelectSeq(msgs, LAMBDA m : Includes(ToLowerCase(m.text), term))

\* filteredMessages: the whole list for a blank term, else the messages
\* whose lower-cased text includes the lower-cased term
FilteredMessages(msgs, term) ==
  IF Trim(term) = <<>>
  THEN msgs
  ELSE SelectSeq(msgs, LAMBDA m : Includes(ToLowerCase(m.text), ToLowerCase(term)))

(***************************************************************************)
(* Typing, search and the mode toggles.                                    *)
(***************************************************************************)
\* textarea onChange
TypeText(t) ==
  /\ inputText' = t
  /\ lastOp' = "input"
  /\ UNCHANGED themeVars
  /\ UNCHANGED <<version, messages, isLoading, attachments, searchTerm,
                 isSearchActive, ocrMode, detectionMode, isListening, recognizer,
                 storage, inflight, uploads, now>>

\* the search button of the header, shown while search is closed
OpenSearch ==
  /\ ~isSearchActive
  /\ isSearchActive' = TRUE
  /\ lastOp' = "input"
  /\ UNCHANGED themeVars
  /\ UNCHANGED <<version, messages, inputText, isLoading, attachments, searchTerm,
                 ocrMode, detectionMode, isListening, recognizer, storage,
                 inflight, uploads, now>>

\* the back button of the search bar
CloseSearch ==
  /\ isSearchActive
  /\ isSearchActive' = FALSE
  /\ searchTerm' = SearchTermAfter(FALSE, searchTerm)
  /\ lastOp' = "input"
  /\ UNCHANGED themeVars
  /\ UNCHANGED <<version, messages, inputText, isLoading, attachments,
                 ocrMode, detectionMode, isListening, recognizer, storage,
                 inflight, uploads, now>>

\* the search input's onChange
ChangeSearchTerm(q) ==
  /\ isSearchActive
  /\ searchTerm' = q
  /\ lastOp' = "input"
  /\ UNCHANGED themeVars
  /\ UNCHANGED <<version, messages, inputText, isLoading, attachments,
                 isSearchActive, ocrMode, detectionMode, isListening, recognizer,
                 storage, inflight, uploads, now>>

\* mutant: a mode button leaves the other mode as it is
OtherModeKept(other) == other

\* what the detection button leaves in ocrMode, and the OCR button in detectionMode
OtherModeAfterToggle(other) == FALSE

\* onClick: setDetectionMode(!detectionMode); setOcrMode(false)
ToggleDetection ==
  /\ detectionMode' = ~detectionMode
  /\ ocrMode' = OtherModeAfterToggle(ocrMode)
  /\ lastOp' = "input"
  /\ UNCHANGED themeVars
  /\ UNCHANGED <<version, messages, inputText, isLoading, attachments, searchTerm,
                 isSearchActive, isListening, recognizer, storage, inflight,
                 uploads, now>>

\* onClick: setOcrMode(!ocrMode); setDetectionMode(false)
ToggleOcr ==
  /\ ocrMode' = ~ocrMode
  /\ detectionMode' = OtherModeAfterToggle(detectionMode)
  /\ lastOp' = "input"
  /\ UNCHANGED themeVars
  /\ UNCHANGED <<version, messages, inputText, isLoading, attachments, searchTerm,
                 isSearchActive, isListening, recognizer, storage, inflight,
                 uploads, now>>

(***************************************************************************)
(* Speech recognition.                                                     *)
(***************************************************************************)
\* toggleListening: stop() while listening, else start(); start() throws on a
\* recognizer that is not idle, which the base revision catches
\* (setIsListening(false)) and the themed revision lets escape the handler
ToggleListening ==
  /\ IF isListening
     THEN /\ recognizer' = RecognizerStop(recognizer)
          /\ UNCHANGED isListening
     ELSE IF recognizer = "idle"
     THEN /\ recognizer' = "starting"
          /\ UNCHANGED isListening
     ELSE /\ isListening' = FALSE
          /\ UNCHANGED recognizer
  /\ lastOp' = "toggleListening"
  /\ UNCHANGED themeVars
  /\ UNCHANGED <<version, messages, inputText, isLoading, attachments, searchTerm,
                 isSearchActive, ocrMode, detectionMode, storage, inflight,
                 uploads, now>>

\* recognition.onstart
RecognitionStart ==
  /\ recognizer = "starting"
  /\ recognizer' = "active"
  /\ isListening' = TRUE
  /\ lastOp' = "onstart"
  /\ UNCHANGED themeVars
  /\ UNCHANGED <<version, messages, inputText, isLoading, attachments, searchTerm,
                 isSearchActive, ocrMode, detectionMode, storage, inflight,
                 uploads, now>>

\* recognition.onresult: the joined transcripts replace the input text
RecognitionResult(event) ==
  /\ recognizer \in {"active", "stopping"}
  /\ inputText' = Transcript(event)
  /\ lastOp' = "onresult"
  /\ UNCHANGED themeVars
  /\ UNCHANGED <<version, messages, isLoading, attachments, searchTerm,
                 isSearchActive, ocrMode, detectionMode, isListening, recognizer,
                 storage, inflight, uploads, now>>

\* mutant: the error is logged and the flag left as it is
ListeningAfterErrorKept(listening) == listening

\* onerror: setIsListening(false)
ListeningAfterError(listening) == FALSE

\* recognition.onerror; the recognizer then ends
RecognitionError ==
  /\ recognizer \in {"starting", "active", "stopping"}
  /\ recognizer' = "failing"
  /\ isListening' = ListeningAfterError(isListening)
  /\ lastOp' = "onerror"
  /\ UNCHANGED themeVars
  /\ UNCHANGED <<version, messages, inputText, isLoading, attachments, searchTerm,
                 isSearchActive, ocrMode, detectionMode, storage, inflight,
                 uploads, now>>

\* recognition.onend
RecognitionEnd ==
  /\ recognizer \in {"active", "stopping", "failing"}
  /\ recognizer' = "idle"
  /\ isListening' = FALSE
  /\ lastOp' = "onend"
  /\ UNCHANGED themeVars
  /\ UNCHANGED <<version, messages, inputText, isLoading, attachments, searchTerm,
                 isSearchActive, ocrMode, detectionMode, storage, inflight,
                 uploads, now>>

(***************************************************************************)
(* Attachments.                                                            *)
(***************************************************************************)
RECURSIVE FilesInUploads(_)
FilesInUploads(tasks) ==
  IF tasks = <<>> THEN 0
  ELSE Len(Head(tasks).files) + Len(Head(tasks).got) + FilesInUploads(Tail(tasks))

\* handleFileUpload up to its first await: the first file is being read.
\* A task holds e.target.files (selected), the files the loop has not
\* reached yet (files) and newAttachments (got).
SelectFiles(files) ==
  /\ Len(attachments) + FilesInUploads(uploads) + Len(files) <= MaxPending
  /\ uploads' = Append(uploads, [selected |-> files, files |-> files, got |-> <<>>])
  /\ lastOp' = "input"
  /\ UNCHANGED themeVars
  /\ UNCHANGED <<version, messages, inputText, isLoading, attachments, searchTerm,
                 isSearchActive, ocrMode, detectionMode, isListening, recognizer,
                 storage, inflight, now>>

\* the first selection of a turn: nothing is attached or being read yet
SelectFirstFiles(files) ==
  /\ attachments = <<>>
  /\ uploads = <<>>
  /\ SelectFiles(files)

\* mutant: attachments read while a request is pending are put on the user
\* message of that request
FileReadSettlesIntoTurn(k) ==
  /\ k \in 1..Len(uploads)
  /\ LET task == uploads[k]
         file == Head(task.files)
         got == IF file.readable THEN Append(task.got, NewAttachment(file)) ELSE task.got
     IN IF Tail(task.files) = <<>>
        THEN /\ IF isLoading /\ messages # <<>>
                THEN /\ messages' = [messages EXCEPT ![Len(messages)].attachments = Some(got)]
                     /\ UNCHANGED attachments
                ELSE /\ attachments' = attachments \o got
                     /\ UNCHANGED messages
             /\ uploads' = RemoveAt(uploads, k)
        ELSE /\ uploads' = [uploads EXCEPT ![k] = [selected |-> task.selected,
                                                    files |-> Tail(task.files),
                                                    got |-> got]]
             /\ UNCHANGED <<attachments, messages>>
  /\ lastOp' = IF Head(uploads[k].files).readable THEN "fileRead" ELSE "fileSkipped"
  /\ UNCHANGED themeVars
  /\ UNCHANGED <<version, inputText, isLoading, searchTerm,
                 isSearchActive, ocrMode, detectionMode, isListening, recognizer,
                 storage, inflight, now>>

\* handleFileUpload resumed by the reader of its current file: the
\* attachment is pushed (onload) or the file skipped (onerror); after the
\* last file, setAttachments(prev => [...prev, ...newAttachments])
FileReadSettles(k) ==
  /\ k \in 1..Len(uploads)
  /\ LET task == uploads[k]
         file == Head(task.files)
         got == IF file.readable THEN Append(task.got, NewAttachment(file)) ELSE task.got
     IN IF Tail(task.files) = <<>>
        THEN /\ attachments' = attachments \o got
             /\ uploads' = RemoveAt(uploads, k)
        ELSE /\ uploads' = [uploads EXCEPT ![k] = [selected |-> task.selected,
                                                    files |-> Tail(task.files),
                                                    got |-> got]]
             /\ UNCHANGED attachments
  /\ lastOp' = IF Head(uploads[k].files).readable THEN "fileRead" ELSE "fileSkipped"
  /\ UNCHANGED themeVars
  /\ UNCHANGED <<version, messages, inputText, isLoading, searchTerm,
                 isSearchActive, ocrMode, detectionMode, isListening, recognizer,
                 storage, inflight, now>>

\* removeAttachment(idx), the button on a preview of the base revision
RemoveAttachment(idx) ==
  /\ version = "base"
  /\ idx \in 1..Len(attachments)
  /\ attachments' = RemoveAt(attachments, idx)
  /\ lastOp' = "removeAttachment" \o ToString(idx)
  /\ UNCHANGED themeVars
  /\ UNCHANGED <<version, messages, inputText, isLoading, searchTerm,
                 isSearchActive, ocrMode, detectionMode, isListening, recognizer,
                 storage, inflight, uploads, now>>

(***************************************************************************)
(* Clearing the history and reloading the page.                            *)
(***************************************************************************)
\* mutant: the item is removed after the effect has written it
StorageRemovedLast(msgs) == StoreNone

\* localStorage.removeItem(STORAGE_KEY) in the handler, then the persistence
\* effect of the render that follows setMessages
StorageAfterClear(msgs) == PersistEffect(msgs)

\* mutant: the answer of window.confirm is not looked at
ClearHistoryUnconfirmed(confirmed) ==
  /\ version = "base"
  /\ ~isSearchActive
  /\ messages' = <<Msg("welcome-" \o ToString(now), RoleModel, ClearedText, None, now)>>
  /\ storage' = StorageAfterClear(messages')
  /\ isSearchActive' = FALSE
  /\ searchTerm' = SearchTermAfter(FALSE, <<>>)
  /\ lastOp' = IF confirmed THEN "clearHistory" ELSE "clearCancelled"
  /\ UNCHANGED themeVars
  /\ UNCHANGED <<version, inputText, isLoading, attachments, ocrMode, detectionMode,
                 isListening, recognizer, inflight, uploads, now>>

\* clearHistory of the base revision; its button is in the header shown
\* while search is closed
ClearHistory(confirmed) ==
  /\ version = "base"
  /\ ~isSearchActive
  /\ IF confirmed
     THEN /\ messages' = <<Msg("welcome-" \o ToString(now), RoleModel, ClearedText, None, now)>>
          /\ storage' = StorageAfterClear(messages')
          /\ isSearchActive' = FALSE
          /\ searchTerm' = SearchTermAfter(FALSE, <<>>)
     ELSE UNCHANGED <<messages, storage, isSearchActive, searchTerm>>
  /\ lastOp' = IF confirmed THEN "clearHistory" ELSE "clearCancelled"
  /\ UNCHANGED themeVars
  /\ UNCHANGED <<version, inputText, isLoading, attachments, ocrMode,
                 detectionMode, isListening, recognizer, inflight, uploads, now>>

\* the page is loaded again with `store` under STORAGE_KEY: the component is
\* mounted anew, as in Init, and whatever the old page awaited is gone
Remount(store) ==
  /\ messages' = LoadMessages(store, version, now)
  /\ storage' = StorageAfterMount(store, messages')
  /\ inputText' = <<>>
  /\ isLoading' = FALSE
  /\ attachments' = <<>>
  /\ searchTerm' = <<>>
  /\ isSearchActive' = FALSE
  /\ ocrMode' = FALSE
  /\ detectionMode' = FALSE
  /\ isListening' = FALSE
  /\ recognizer' = "idle"
  /\ inflight' = <<>>
  /\ uploads' = <<>>
  /\ isSettingsOpen' = FALSE
  /\ theme' = IF version = "themed" THEN ThemeAtStartup(themeStorage) ELSE theme
  /\ themeStorage' = IF version = "themed" /\ IsArray(messages')
                     THEN ThemeEffect(theme') ELSE themeStorage
  /\ UNCHANGED <<version, now>>

\* the user reloads the page
Reload ==
  /\ Remount(storage)
  /\ lastOp' = "reload"

\* the settings button of the header (themed revision)
OpenSettings ==
  /\ version = "themed"
  /\ ~isSettingsOpen
  /\ isSettingsOpen' = TRUE
  /\ lastOp' = "input"
  /\ UNCHANGED <<theme, themeStorage>>
  /\ UNCHANGED <<version, messages, inputText, isLoading, attachments, searchTerm,
                 isSearchActive, ocrMode, detectionMode, isListening, recognizer,
                 storage, inflight, uploads, now>>

\* the close button of the settings dialog
CloseSettings ==
  /\ version = "themed"
  /\ isSettingsOpen
  /\ isSettingsOpen' = FALSE
  /\ lastOp' = "input"
  /\ UNCHANGED <<theme, themeStorage>>
  /\ UNCHANGED <<version, messages, inputText, isLoading, attachments, searchTerm,
                 isSearchActive, ocrMode, detectionMode, isListening, recognizer,
                 storage, inflight, uploads, now>>

\* a theme button of the settings dialog: setTheme(t.id), then the effect
SelectTheme(t) ==
  /\ version = "themed"
  /\ isSettingsOpen
  /\ theme' = t
  /\ themeStorage' = ThemeEffect(theme')
  /\ lastOp' = "selectTheme"
  /\ UNCHANGED isSettingsOpen
  /\ UNCHANGED <<version, messages, inputText, isLoading, attachments, searchTerm,
                 isSearchActive, ocrMode, detectionMode, isListening, recognizer,
                 storage, inflight, uploads, now>>

\* the clear button of the settings dialog (themed revision): on confirm,
\* localStorage.removeItem(STORAGE_KEY); window.location.reload()
ClearHistoryThemed(confirmed) ==
  /\ version = "themed"
  /\ isSettingsOpen
  /\ IF confirmed THEN Remount(StoreNone) ELSE UNCHANGED progVars
  /\ lastOp' = IF confirmed THEN "clearHistory" ELSE "clearCancelled"

(***************************************************************************)
(* Sending a message and the settling of its request.                      *)
(***************************************************************************)
\* mutant: the input is not trimmed
HasInputUntrimmed(t) == Len(t) > 0

\* inputText.trim().length > 0
HasInput(t) == Len(Trim(t)) > 0

\* mutant: the busy flag is not consulted
BusyGuardMissing == FALSE

\* if (isLoading) return
BusyGuard == isLoading

\* the two early returns of handleSendMessage
SendRejected == BusyGuard \/ (~HasInput(inputText) /\ attachments = <<>>)

DisplayPrefix(v, ocr, det) ==
  IF det THEN (IF v = "base" THEN PrefixDetectionBase ELSE PrefixDetectionThemed)
  ELSE IF ocr THEN (IF v = "base" THEN PrefixOcrBase ELSE PrefixOcrThemed)
  ELSE <<>>

\* the text shown for an empty input
DefaultUserText(v, ocr, det) ==
  IF v = "base"
  THEN (IF det THEN DefaultDetectionText ELSE IF ocr THEN DefaultOcrText ELSE DefaultFileText)
  ELSE DefaultFileText

\* userMessage
UserMessage ==
  Msg(ToString(now), RoleUser,
      DisplayPrefix(version, ocrMode, detectionMode)
        \o OrElse(inputText, DefaultUserText(version, ocrMode, detectionMode)),
      Some(attachments), now)

\* mutant: the list the user message was appended to is passed as history
HistoryWithTurn(userMessage) == Append(messages, userMessage)

\* the history argument of generateGeminiResponse: `messages` of the render
\* the handler belongs to, the list setMessages has not yet appended to
HistoryArgument(userMessage) == messages

\* setOcrMode(false) and setDetectionMode(false) are in the base revision only
ModeAfterSend(v, flag) == IF v = "base" THEN FALSE ELSE flag

\* setIsSearchActive(false) is in the base revision only
SearchActiveAfterSend(v, active) == IF v = "base" THEN FALSE ELSE active

\* handleSendMessage up to its await: Enter in the textarea of the base
\* revision at any time; the submit button, disabled while loading
\* (the themed revision has no other way to submit)
HandleSendMessage ==
  /\ version = "themed" => ~isLoading
  /\ IF SendRejected
     THEN UNCHANGED progVars
     ELSE /\ Len(messages) < MaxMessages
          /\ Len(inflight) < MaxInflight
          /\ messages' = AppendMessage(messages, UserMessage)
          /\ inflight' = Append(inflight,
                GenerateContentRequest(inputText, HistoryArgument(UserMessage),
                                       attachments, ocrMode, detectionMode))
          /\ inputText' = <<>>
          /\ attachments' = <<>>
          /\ isLoading' = TRUE
          /\ isSearchActive' = SearchActiveAfterSend(version, isSearchActive)
          /\ searchTerm' = SearchTermAfter(isSearchActive', searchTerm)
          /\ ocrMode' = ModeAfterSend(version, ocrMode)
          /\ detectionMode' = ModeAfterSend(version, detectionMode)
          /\ recognizer' = IF isListening THEN RecognizerStop(recognizer) ELSE recognizer
          /\ storage' = PersistEffect(messages')
          /\ UNCHANGED themeVars
  /\ UNCHANGED <<version, isListening, uploads, now>>
  /\ lastOp' = "send"

\* the text of the model turn appended by the catch block
CatchText(v, thrown) == IF v = "base" THEN ErrSorryText ELSE ErrCommText

\* mutant: the catch block issues the rejected request again
RequestsAfterRetry(reqs, i, result) ==
  IF result.kind = "rejected" THEN reqs ELSE RemoveAt(reqs, i)

\* the requests still awaited once request i has settled: neither the try
\* nor the catch block calls generateGeminiResponse again
RequestsAfterSettle(reqs, i, result) == RemoveAt(reqs, i)

\* handleSendMessage after its await: the request settles, a model message
\* is appended (try or catch) and finally setIsLoading(false)
RequestSettles(i, outcome) ==
  /\ i \in 1..Len(inflight)
  /\ LET result == ServiceResult(outcome)
         text == IF result.kind = "resolved" THEN result.text
                 ELSE CatchText(version, result.text)
     IN messages' = AppendMessage(messages,
                       Msg(ToString(now + 1), RoleModel, text, None, now))
  /\ isLoading' = FALSE
  /\ inflight' = RequestsAfterSettle(inflight, i, ServiceResult(outcome))
  /\ storage' = PersistEffect(messages')
  /\ lastOp' = IF outcome.kind = "response" THEN "resolved" ELSE "rejected"
  /\ UNCHANGED themeVars
  /\ UNCHANGED <<version, inputText, attachments, searchTerm, isSearchActive,
                 ocrMode, detectionMode, isListening, recognizer, uploads, now>>

\* time passes
Tick ==
  /\ now < MaxClock
  /\ now' = now + 1
  /\ lastOp' = "input"
  /\ UNCHANGED themeVars
  /\ UNCHANGED <<version, messages, inputText, isLoading, attachments, searchTerm,
                 isSearchActive, ocrMode, detectionMode, isListening, recognizer,
                 storage, inflight, uploads>>

\* the conversation: typing, sending, the settling of requests, clearing
CoreNext ==
  \/ \E t \in InputTexts : TypeText(t)
  \/ \E confirmed \in BOOLEAN : ClearHistory(confirmed)
  \/ OpenSettings
  \/ CloseSettings
  \/ \E confirmed \in BOOLEAN : ClearHistoryThemed(confirmed)
  \/ HandleSendMessage
  \/ \E i \in 1..MaxInflight, outcome \in ApiOutcomes : RequestSettles(i, outcome)

\* the mode buttons
ModeNext ==
  \/ ToggleDetection
  \/ ToggleOcr

\* attachments
FilesNext ==
  \/ \E files \in Selections : SelectFiles(files)
  \/ \E k \in 1..MaxPending : FileReadSettles(k)
  \/ \E idx \in 1..MaxPending : RemoveAttachment(idx)

\* attachments selected once per turn
UploadOnceNext ==
  \/ \E files \in Selections : SelectFirstFiles(files)
  \/ \E k \in 1..MaxPending : FileReadSettles(k)

\* search
SearchNext ==
  \/ OpenSearch
  \/ CloseSearch
  \/ \E q \in SearchTerms : ChangeSearchTerm(q)

\* dictation
SpeechNext ==
  \/ ToggleListening
  \/ RecognitionStart
  \/ \E event \in SpeechEvents : RecognitionResult(event)
  \/ RecognitionError
  \/ RecognitionEnd

\* the themes
ThemeNext == \E t \in ThemeIds : SelectTheme(t)

Next ==
  CoreNext \/ ModeNext \/ FilesNext \/ SearchNext \/ SpeechNext \/ ThemeNext
    \/ Reload \/ Tick

\* every handler and event, in any order
Spec == Init /\ [][Next]_vars

\* the conversation with the mode buttons and search
SpecChat == Init /\ [][CoreNext \/ ModeNext \/ SearchNext]_vars

\* typing, sending and settling
TurnNext ==
  \/ \E t \in InputTexts : TypeText(t)
  \/ HandleSendMessage
  \/ \E i \in 1..MaxInflight, outcome \in ApiOutcomes : RequestSettles(i, outcome)

\* the conversation with attachments selected once per turn
SpecFiles == Init /\ [][TurnNext \/ UploadOnceNext]_vars

\* selecting, reading and removing attachments up to the send of a turn
SpecAttach == Init /\ [][FilesNext \/ HandleSendMessage]_vars

\* a turn up to the settling of its request, with everything the user can
\* prepare for the next one
SpecPending ==
  Init /\ [][(\E t \in InputTexts : TypeText(t)) \/ HandleSendMessage
              \/ UploadOnceNext \/ ModeNext \/ SearchNext]_vars

\* the conversation with dictation
SpecSpeech == Init /\ [][CoreNext \/ SpeechNext]_vars

\* the conversation with the clock running
SpecClock == Init /\ [][CoreNext \/ Tick]_vars

(***************************************************************************)
(* The themed revision from the loading of its page: the two storage keys  *)
(* hold what earlier sessions left, and the component is not mounted yet.  *)
(***************************************************************************)
InitPage ==
  /\ version = "themed"
  /\ now = 0
  /\ storage \in InitialStores
  /\ themeStorage \in StoredThemes
  /\ messages = <<>>
  /\ inputText = <<>>
  /\ isLoading = FALSE
  /\ attachments = <<>>
  /\ searchTerm = <<>>
  /\ isSearchActive = FALSE
  /\ ocrMode = FALSE
  /\ detectionMode = FALSE
  /\ isListening = FALSE
  /\ recognizer = "idle"
  /\ inflight = <<>>
  /\ uploads = <<>>
  /\ isSettingsOpen = FALSE
  /\ theme = "light"
  /\ lastOp = "unmounted"

\* the first render and its effects
Mount ==
  /\ lastOp = "unmounted"
  /\ Remount(storage)
  /\ lastOp' = StartupOp(storage)

\* the settings dialog and the conversation, once mounted
MountedNext ==
  /\ lastOp # "unmounted"
  /\ \/ OpenSettings
     \/ CloseSettings
     \/ ThemeNext
     \/ \E confirmed \in BOOLEAN : ClearHistoryThemed(confirmed)
     \/ TurnNext

SpecTheme == InitPage /\ [][Mount \/ MountedNext]_vars

(***************************************************************************)
(* Either revision from the loading of its page, with anything under       *)
(* STORAGE_KEY that a string can hold: what InitialStores lists and JSON   *)
(* texts that are no array. Nothing can be done on a page whose render     *)
(* threw, except loading it again.                                         *)
(***************************************************************************)
StoredValues ==
  InitialStores \cup {StoreJson(JNull), StoreJson(JNum(5)), StoreJson(JObj(<<>>))}

InitStored ==
  /\ version \in {"base", "themed"}
  /\ now = 0
  /\ storage \in StoredValues
  /\ themeStorage = None
  /\ messages = <<>>
  /\ inputText = <<>>
  /\ isLoading = FALSE
  /\ attachments = <<>>
  /\ searchTerm = <<>>
  /\ isSearchActive = FALSE
  /\ ocrMode = FALSE
  /\ detectionMode = FALSE
  /\ isListening = FALSE
  /\ recognizer = "idle"
  /\ inflight = <<>>
  /\ uploads = <<>>
  /\ isSettingsOpen = FALSE
  /\ theme = "light"
  /\ lastOp = "unmounted"

StartedNext ==
  /\ lastOp # "unmounted"
  /\ \/ Reload
     \/ IsArray(messages) /\ TurnNext

SpecStartup == InitStored /\ [][Mount \/ StartedNext]_vars

(***************************************************************************)
(* generateGeminiResponse called on its own. Its arguments are held in the *)
(* variables the component passes them from (inputText, messages,          *)
(* attachments, ocrMode, detectionMode); a caller may pass both flags.     *)
(***************************************************************************)
PromptTexts == InputTexts \cup {<<" ", "A", " ">>}
HistoryArguments == {<<>>, EarlierHistory}
AttachmentArguments == {<<>>, <<NewAttachment(FilePicture)>>}

InitService ==
  /\ version \in {"base", "themed"}
  /\ now = 0
  /\ messages \in HistoryArguments
  /\ storage = PersistEffect(messages)
  /\ inputText \in PromptTexts
  /\ attachments \in AttachmentArguments
  /\ ocrMode \in BOOLEAN
  /\ detectionMode \in BOOLEAN
  /\ isLoading = FALSE
  /\ searchTerm = <<>>
  /\ isSearchActive = FALSE
  /\ isListening = FALSE
  /\ recognizer = "idle"
  /\ inflight = <<>>
  /\ uploads = <<>>
  /\ isSettingsOpen = FALSE
  /\ theme = "light"
  /\ themeStorage = None
  /\ lastOp = "arguments"

\* the call, up to ai.models.generateContent
CallService ==
  /\ inflight = <<>>
  /\ inflight' = <<GenerateContentRequest(inputText, messages, attachments,
                                          ocrMode, detectionMode)>>
  /\ lastOp' = "call"
  /\ UNCHANGED themeVars
  /\ UNCHANGED <<version, messages, inputText, isLoading, attachments, searchTerm,
                 isSearchActive, ocrMode, detectionMode, isListening, recognizer,
                 storage, uploads, now>>

\* ai.models.generateContent settles and the function returns or throws;
\* the settled call keeps the API's outcome beside the function's result
ServiceSettles(outcome) ==
  /\ lastOp = "call"
  /\ inflight' = <<[outcome |-> outcome, settled |-> ServiceResult(outcome)]>>
  /\ lastOp' = IF outcome.kind = "response" THEN "returned" ELSE "thrown"
  /\ UNCHANGED themeVars
  /\ UNCHANGED <<version, messages, inputText, isLoading, attachments, searchTerm,
                 isSearchActive, ocrMode, detectionMode, isListening, recognizer,
                 storage, uploads, now>>

SpecService ==
  InitService /\ [][CallService \/ \E outcome \in ApiOutcomes : ServiceSettles(outcome)]_vars

(***************************************************************************)
(* What the claims speak of.                                               *)
(***************************************************************************)
\* every character of s is whitespace (the empty s included)
Blank(s) == \A i \in 1..Len(s) : IsSpace(s[i])

\* a send attempt made in this state is accepted
Accepting == ~isLoading /\ (~Blank(inputText) \/ attachments # <<>>)

\* this step is a send attempt that is accepted
AcceptedSend == lastOp' = "send" /\ Accepting

\* old is what new begins with
IsPrefix(old, new) == Len(old) <= Len(new) /\ SubSeq(new, 1, Len(old)) = old

\* new is old with one message of the role at its end
AppendsOne(old, new, role) ==
  /\ Len(new) = Len(old) + 1
  /\ IsPrefix(old, new)
  /\ new[Len(new)].role = role

(***************************************************************************)
(* C1: at most one request is in flight in every reachable state, whatever *)
(* the order of send attempts, responses and failures; while one is in     *)
(* flight the busy flag is set, and a send attempted then issues none.     *)
(***************************************************************************)
C1_OneRequestInFlight ==
  /\ Len(inflight) <= 1
  /\ Len(inflight) = 1 => isLoading

\* a send was attempted with text typed while a request was in flight
C1_Witness ==
  /\ lastOp = "send"
  /\ Len(inflight) = 1
  /\ ~Blank(inputText)

(***************************************************************************)
(* C2: a send attempted with an empty or whitespace-only input and no      *)
(* pending attachment changes nothing: messages, requests, the busy flag,  *)
(* input text, attachments, mode flags and search state stay as they were. *)
(***************************************************************************)
C2_EmptySendIsNoOp ==
  [][(lastOp' = "send" /\ Blank(inputText) /\ attachments = <<>>)
       => UNCHANGED progVars]_vars

\* a whitespace-only send was attempted with a mode on and search open
C2_Witness ==
  /\ lastOp = "send"
  /\ ~isLoading
  /\ inputText = <<" ">>
  /\ attachments = <<>>
  /\ ocrMode \/ detectionMode
  /\ isSearchActive
  /\ searchTerm # <<>>

(***************************************************************************)
(* C3: the OCR flag and the detection flag are never both true.            *)
(***************************************************************************)
C3_ModesExclusive == ~(ocrMode /\ detectionMode)

\* detection was switched on after OCR had been on, a turn later
C3_Witness ==
  /\ detectionMode
  /\ ~ocrMode
  /\ \E i \in 1..Len(messages) :
       messages[i].role = RoleUser
       /\ (Includes(messages[i].text, PrefixOcrBase) \/ Includes(messages[i].text, PrefixOcrThemed))

(***************************************************************************)
(* C4: right after an accepted send both mode flags are false, whatever    *)
(* they were before.                                                       *)
(***************************************************************************)
C4_ModesResetBySend ==
  [][AcceptedSend => (~ocrMode' /\ ~detectionMode')]_vars

(***************************************************************************)
(* C5: writing a reachable message list under the history key and reading  *)
(* it back at startup gives the same list: as many messages, in the same   *)
(* order, each with its id, role, text, attachments and timestamp.         *)
(***************************************************************************)
C5_RoundTrip ==
  LET reloaded == LoadMessages(StoreJson(Stringify(messages)), version, now)
  IN /\ Len(reloaded) = Len(messages)
     /\ \A i \in 1..Len(messages) :
          /\ reloaded[i].id = messages[i].id
          /\ reloaded[i].role = messages[i].role
          /\ reloaded[i].text = messages[i].text
          /\ reloaded[i].attachments = messages[i].attachments
          /\ reloaded[i].timestamp = messages[i].timestamp

\* the list holds a user message with an attachment, one with none, and a
\* model message, which has no attachments field
C5_Witness ==
  /\ \E i \in 1..Len(messages) :
       messages[i].attachments # None /\ messages[i].attachments[1] # <<>>
  /\ \E i \in 1..Len(messages) : messages[i].attachments = Some(<<>>)
  /\ \E i \in 1..Len(messages) :
       messages[i].role = RoleModel /\ messages[i].attachments = None

(***************************************************************************)
(* C6: after every operation, once its effects have run, the history key   *)
(* holds the serialization of the message list in memory, so that a reload *)
(* restores the list displayed.                                            *)
(***************************************************************************)
C6_Persisted ==
  /\ storage = StoreJson(Stringify(messages))
  /\ LoadMessages(storage, version, now) = messages

\* the history was cleared in the base revision while a request was in flight
C6_Witness ==
  /\ lastOp = "clearHistory"
  /\ version = "base"
  /\ isLoading
  /\ Len(messages) = 1

(***************************************************************************)
(* C7: the view shown for a search term.                                   *)
(***************************************************************************)
\* c and d are the same character, or the two cases of one letter
SameIgnoringCase(c, d) ==
  \/ c = d
  \/ \E i \in 1..Len(UpperLetters) :
       \/ c = UpperLetters[i] /\ d = LowerLetters[i]
       \/ c = LowerLetters[i] /\ d = UpperLetters[i]

\* text contains query, ignoring case
ContainsIgnoringCase(text, query) ==
  \E k \in 0..(Len(text) - Len(query)) :
    \A j \in 1..Len(query) : SameIgnoringCase(text[k + j], query[j])

\* the messages whose text contains the query ignoring case, in their order
Matching(msgs, query) ==
  SelectSeq(msgs, LAMBDA m : ContainsIgnoringCase(m.text, query))

\* C7 as claimed: for every query the view is exactly the messages whose
\* text contains the query ignoring case, the full list for the empty query
C7_Original ==
  FilteredMessages(messages, searchTerm) = Matching(messages, searchTerm)

\* C7 as amended: the view is the full list when the query is empty or
\* only whitespace; for any other query it is exactly the messages whose
\* text contains the query as typed, ignoring case, in their original order
C7_FilterIsSubstringPredicate ==
  FilteredMessages(messages, searchTerm) =
    IF Blank(searchTerm) THEN messages ELSE Matching(messages, searchTerm)

\* a term in upper case selects some messages, not all, one of them
\* holding the term in lower case only
C7_Witness ==
  LET view == FilteredMessages(messages, searchTerm)
  IN /\ searchTerm = <<"O">>
     /\ Len(view) >= 2
     /\ Len(view) < Len(messages)
     /\ \E i \in 1..Len(view) : ~Includes(view[i].text, searchTerm)

(***************************************************************************)
(* C8: the message list is append-only.  An accepted send adds one user    *)
(* message at the end, a response or a failure adds one model message at   *)
(* the end, each leaving the list before it as a prefix; and no operation  *)
(* but clearing the history removes, reorders or edits a message.          *)
(***************************************************************************)
C8_AppendOnly ==
  [][/\ AcceptedSend => AppendsOne(messages, messages', RoleUser)
     /\ lastOp' \in {"resolved", "rejected"} => AppendsOne(messages, messages', RoleModel)
     /\ lastOp' # "clearHistory" => IsPrefix(messages, messages')]_vars

\* a response was appended to a list of three messages
C8_Witness ==
  /\ lastOp = "resolved"
  /\ Len(messages) = 4
  /\ messages[3].role = RoleUser

(***************************************************************************)
(* C9: an accepted send issues exactly one request.  Its contents are one  *)
(* block per message of the list as it was before the turn's user message  *)
(* was appended, in list order and with the message's role, text and       *)
(* attachment data, followed by exactly one user block holding the text of *)
(* the turn and the attachments that were pending, in order.               *)
(***************************************************************************)
\* the inlineData parts of a block, in order
InlineParts(block) == SelectSeq(block.parts, LAMBDA part : part.t = "inlineData")

\* the text parts of a block, in order
TextParts(block) == SelectSeq(block.parts, LAMBDA part : part.t = "text")

\* the attachments as mime type and data, in order
InlineData(atts) ==
  [i \in 1..Len(atts) |-> [mimeType |-> atts[i].mimeType, data |-> atts[i].data]]

PartData(parts) ==
  [i \in 1..Len(parts) |-> [mimeType |-> parts[i].mimeType, data |-> parts[i].data]]

\* block is the block of the prior message msg
BlockOfMessage(block, msg) ==
  /\ block.role = msg.role
  /\ msg.text # <<>> =>
       /\ Len(TextParts(block)) = 1
       /\ block.parts[1] = [t |-> "text", text |-> msg.text]
  /\ PartData(InlineParts(block)) =
       InlineData(IF msg.attachments = None THEN <<>> ELSE msg.attachments[1])

\* block is the block of the current turn
BlockOfTurn(block, text, atts) ==
  /\ block.role = "user"
  /\ Len(TextParts(block)) = 1
  /\ block.parts[1].t = "text"
  /\ Includes(block.parts[1].text, Trim(text))
  /\ PartData(InlineParts(block)) = InlineData(atts)

C9_RequestContents ==
  [][AcceptedSend =>
       /\ Len(inflight') = Len(inflight) + 1
       /\ IsPrefix(inflight, inflight')
       /\ LET contents == inflight'[Len(inflight')].contents
          IN /\ Len(contents) = Len(messages) + 1
             /\ \A i \in 1..Len(messages) : BlockOfMessage(contents[i], messages[i])
             /\ BlockOfTurn(contents[Len(contents)], inputText, attachments)]_vars

\* a request was issued whose history holds a user message with an
\* attachment and whose own turn carries a text and an attachment
C9_Witness ==
  /\ lastOp = "send"
  /\ Len(inflight) = 1
  /\ LET contents == inflight[1].contents
     IN /\ Len(contents) = 3
        /\ Len(messages) = 3
        /\ contents[2].role = "user"
        /\ InlineParts(contents[2]) # <<>>
        /\ InlineParts(contents[3]) # <<>>
        /\ contents[3].parts[1].text = <<"A", "b">>

(***************************************************************************)
(* C10: when the AI call rejects, exactly one message is appended, with    *)
(* role model, whose text is one of the two fixed strings of the AI        *)
(* service (files too large, communication error); the messages before it, *)
(* the turn's user message among them, stay in the list.                   *)
(***************************************************************************)
C10_RejectionAppendsFixedText ==
  [][lastOp' = "rejected" =>
       /\ AppendsOne(messages, messages', RoleModel)
       /\ messages'[Len(messages')].text \in {ErrTooLargeText, ErrCommText}]_vars

(***************************************************************************)
(* C11: a send is recovered locally and without retry: the step in which   *)
(* a request settles, by response or by rejection, clears the busy flag    *)
(* and leaves one request fewer in flight (the rejected one is not issued  *)
(* again); requests are issued by accepted sends only, one each; and a     *)
(* send attempted with something to send while the flag is clear is        *)
(* accepted.                                                               *)
(***************************************************************************)
C11_RecoveredWithoutRetry ==
  [][/\ lastOp' \in {"resolved", "rejected"}
          => (~isLoading' /\ Len(inflight') = Len(inflight) - 1)
     /\ Len(inflight') > Len(inflight)
          => (AcceptedSend /\ Len(inflight') = Len(inflight) + 1)
     /\ AcceptedSend
          => (isLoading' /\ Len(inflight') = Len(inflight) + 1
              /\ Len(messages') = Len(messages) + 1)]_vars

\* a send was accepted after the request of the turn before it was rejected
C11_Witness ==
  /\ lastOp = "send"
  /\ isLoading
  /\ Len(inflight) = 1
  /\ Len(messages) = 3
  /\ messages[1].role = RoleUser
  /\ messages[2].role = RoleModel
  /\ messages[2].text \in {ErrSorryText, ErrCommText}
  /\ messages[3].role = RoleUser

(***************************************************************************)
(* C12: when the value under the history key does not deserialize at       *)
(* startup, or nothing is stored, the conversation starts as exactly one   *)
(* message, the default welcome message of role model, and nothing else of *)
(* the application shows the failure.                                      *)
(***************************************************************************)
C12_StartupDefault ==
  lastOp \in {"mountCaught", "mountDefault"}
    => /\ Len(messages) = 1
       /\ messages[1].id = "welcome"
       /\ messages[1].role = RoleModel
       /\ messages[1].text = WelcomeText(version)
       /\ messages[1].attachments = None
       /\ inputText = <<>> /\ attachments = <<>> /\ ~isLoading
       /\ inflight = <<>>

\* the application started on a stored value that JSON.parse rejects
C12_Witness ==
  /\ lastOp = "mountCaught"
  /\ Len(messages) = 1

(***************************************************************************)
(* C13: an accepted send puts exactly the attachments pending at that      *)
(* moment, in their order, on the appended user message and into the       *)
(* current turn of the request, and leaves no attachment pending; removing *)
(* the attachment at index i deletes that element and keeps the others in  *)
(* their order.                                                            *)
(***************************************************************************)
C13_AttachmentsDiscarded ==
  [][/\ AcceptedSend =>
          /\ messages'[Len(messages')].attachments = Some(attachments)
          /\ LET contents == inflight'[Len(inflight')].contents
             IN PartData(InlineParts(contents[Len(contents)])) = InlineData(attachments)
          /\ attachments' = <<>>
     /\ \A i \in 1..Len(attachments) :
          lastOp' = "removeAttachment" \o ToString(i) =>
            /\ Len(attachments') = Len(attachments) - 1
            /\ \A j \in 1..(i - 1) : attachments'[j] = attachments[j]
            /\ \A j \in i..Len(attachments') : attachments'[j] = attachments[j + 1]]_vars

\* two files were attached, the first was removed and the turn was sent
\* with the second
C13_Witness ==
  /\ lastOp = "send"
  /\ attachments = <<>>
  /\ Len(inflight) = 1
  /\ messages[Len(messages)].attachments = Some(<<NewAttachment(FileNote)>>)

\* this step calls start() on the recognizer, or stop() on a running one
RecognizerStarted == recognizer' = "starting" /\ recognizer # "starting"
RecognizerStopped == recognizer' = "stopping" /\ recognizer # "stopping"

\* what C14 says of the error event and of the listening flag
SpeechErrorIsStateFlip ==
  /\ lastOp' = "onerror" =>
       /\ ~isListening'
       /\ UNCHANGED <<messages, inputText, attachments, isLoading, ocrMode,
                      detectionMode, storage, inflight>>
  /\ (isListening' /\ ~isListening) => lastOp' = "onstart"
  /\ lastOp' \in {"onend", "onerror"} => ~isListening'

(***************************************************************************)
(* C14 as stated: recognition is started and stopped by the user toggle    *)
(* only; an error event clears the listening flag and leaves the           *)
(* conversation, input text, attachments, busy flag and mode flags as they *)
(* were; the flag is true only between a start event and the next end or   *)
(* error event.                                                            *)
(***************************************************************************)
C14_Original ==
  [][/\ RecognizerStarted => lastOp' = "toggleListening"
     /\ RecognizerStopped => lastOp' = "toggleListening"
     /\ SpeechErrorIsStateFlip]_vars

(***************************************************************************)
(* C14 amended: recognition is started by the user toggle only, and        *)
(* stopped by the toggle or by an accepted send made while listening; the  *)
(* rest as stated.                                                         *)
(***************************************************************************)
C14_SpeechErrorFlipsFlag ==
  [][/\ RecognizerStarted => lastOp' = "toggleListening"
     /\ RecognizerStopped =>
          \/ lastOp' = "toggleListening"
          \/ AcceptedSend /\ isListening
     /\ SpeechErrorIsStateFlip]_vars

\* an error event arrived while a request was awaited and dictated text
\* was in the input field
C14_Witness ==
  /\ lastOp = "onerror"
  /\ ~isListening
  /\ recognizer = "failing"
  /\ isLoading
  /\ inputText = <<"o", "k">>

\* the text part of the current turn of the request that was made
TurnText ==
  LET contents == inflight[1].contents
  IN contents[Len(contents)].parts[1].text

(***************************************************************************)
(* C15: the text of the current turn is chosen by the mode flags: with     *)
(* detection on, the detection instruction, followed by the trimmed user   *)
(* text as notes when there is one; else with OCR on, the OCR instruction, *)
(* followed by the trimmed user text as context when there is one; else    *)
(* the trimmed user text, or the file-analysis prompt when the text is     *)
(* empty and there are attachments, or "Bonjour" when both are empty.      *)
(* Detection wins when both flags are passed.                              *)
(***************************************************************************)
C15_PromptByMode ==
  lastOp = "call" =>
    LET trimmed == Trim(inputText)
    IN /\ Blank(inputText) <=> trimmed = <<>>
       /\ detectionMode =>
            TurnText = IF trimmed # <<>>
                       THEN DetectInstruction \o DetectNotes \o trimmed
                       ELSE DetectInstruction
       /\ (ocrMode /\ ~detectionMode) =>
            TurnText = IF trimmed # <<>>
                       THEN OcrInstruction \o OcrContext \o trimmed
                       ELSE OcrInstruction
       /\ (~ocrMode /\ ~detectionMode) =>
            TurnText = IF trimmed # <<>> THEN trimmed
                       ELSE IF attachments # <<>> THEN AnalysePrompt
                       ELSE HelloPrompt

\* the function was called with both flags and a text with spaces around it
C15_Witness ==
  /\ lastOp = "call"
  /\ ocrMode /\ detectionMode
  /\ inputText = <<" ", "A", " ">>
  /\ TurnText = DetectInstruction \o DetectNotes \o <<"A">>

\* the request the same arguments give with neither mode on
PlainRequest == GenerateContentRequest(inputText, messages, attachments, FALSE, FALSE)

(***************************************************************************)
(* C16 as stated: temperature, top-p and top-k each take another value in  *)
(* a request made with OCR or detection on than in one made with neither.  *)
(***************************************************************************)
C16_Original ==
  (lastOp = "call" /\ (ocrMode \/ detectionMode)) =>
    /\ inflight[1].temperature # PlainRequest.temperature
    /\ inflight[1].topP # PlainRequest.topP
    /\ inflight[1].topK # PlainRequest.topK

(***************************************************************************)
(* C16 amended: of the sampling parameters only the temperature varies by  *)
(* mode: 0.2 with OCR or detection on, 0.7 with neither; top-p is 0.95 and *)
(* top-k is 64 in every request.                                           *)
(***************************************************************************)
C16_TemperatureByMode ==
  lastOp = "call" =>
    /\ inflight[1].temperature = (IF ocrMode \/ detectionMode THEN "0.2" ELSE "0.7")
    /\ inflight[1].topP = "0.95"
    /\ inflight[1].topK = "64"

\* a request was made in OCR mode
C16_Witness ==
  /\ lastOp = "call"
  /\ ocrMode /\ ~detectionMode
  /\ inflight[1].temperature = "0.2"
  /\ inflight[1].topP = PlainRequest.topP

\* what the function returns for an answer of the API: its text, or the
\* fallback sentence when the text is missing or empty
ReturnedTexts ==
  {IF o.text = None \/ o.text = Some(<<>>) THEN FallbackText ELSE o.text[1] :
     o \in {a \in ApiOutcomes : a.kind = "response"}}

(***************************************************************************)
(* C17: the call ends with one text or a thrown error: for every answer of *)
(* the API the function returns a non-empty text, the fallback sentence    *)
(* standing in for a missing or empty one, and for every error it throws;  *)
(* every resolved call appends exactly one model message, whose text is    *)
(* the returned one.                                                       *)
(***************************************************************************)
C17_ResolvedAppendsText ==
  [][/\ \A o \in ApiOutcomes :
          IF o.kind = "response"
          THEN /\ ServiceResult(o).kind = "resolved"
               /\ ServiceResult(o).text # <<>>
               /\ ServiceResult(o).text \in ReturnedTexts
               /\ (o.text = None \/ o.text = Some(<<>>))
                    <=> ServiceResult(o).text = FallbackText
          ELSE ServiceResult(o).kind = "rejected"
     /\ lastOp' = "resolved" =>
          /\ AppendsOne(messages, messages', RoleModel)
          /\ messages'[Len(messages')].text \in ReturnedTexts
          /\ messages'[Len(messages')].text # <<>>]_vars

\* the API answered without a text and the fallback sentence was appended
C17_Witness ==
  /\ lastOp = "resolved"
  /\ Len(messages) >= 2
  /\ messages[Len(messages)].role = RoleModel
  /\ messages[Len(messages)].text = FallbackText
  /\ messages[Len(messages) - 1].role = RoleUser

(***************************************************************************)
(* C18: the theme is mirrored to its storage key: after every theme        *)
(* selection the value under the key is the current theme; at startup the  *)
(* theme is the stored identifier, or 'light' when nothing is stored;      *)
(* a change of theme leaves the message list and its storage key as they   *)
(* were.                                                                   *)
(***************************************************************************)
C18_ThemeMirrored ==
  [][/\ lastOp' = "selectTheme" => themeStorage' = Some(theme')
     /\ lastOp' # "unmounted" => themeStorage' = Some(theme')
     /\ (lastOp = "unmounted" /\ lastOp' # "unmounted") =>
          /\ themeStorage = None => theme' = "light"
          /\ \A id \in ThemeIds : themeStorage = Some(id) => theme' = id
     /\ (lastOp # "unmounted" /\ theme' # theme) =>
          /\ lastOp' = "selectTheme"
          /\ UNCHANGED <<messages, storage>>]_vars

\* a theme was selected while the request of a turn was awaited
C18_Witness ==
  /\ lastOp = "selectTheme"
  /\ theme = "forest"
  /\ themeStorage = Some("forest")
  /\ Len(messages) = 3
  /\ isLoading

(***************************************************************************)
(* C19: a send attempted while a request is pending changes nothing: the   *)
(* message list, the input text, the pending attachments, the mode flags,  *)
(* the search state and the request in flight stay as they were, so the    *)
(* text and the attachments remain for a later send.                       *)
(***************************************************************************)
C19_BusySendIsNoOp ==
  [][(lastOp' = "send" /\ isLoading) =>
       /\ UNCHANGED <<messages, inputText, attachments, ocrMode, detectionMode,
                      searchTerm, isSearchActive, inflight>>
       /\ UNCHANGED progVars]_vars

\* a send was attempted, while a request was pending, with a text typed, a
\* file attached, a mode on and a search term entered
C19_Witness ==
  /\ lastOp = "send"
  /\ isLoading
  /\ Len(inflight) = 1
  /\ inputText = <<"A", "b">>
  /\ Len(attachments) = 1
  /\ ocrMode \/ detectionMode
  /\ isSearchActive
  /\ searchTerm = <<"a">>

\* the first alternatives of the results, one after the other
RECURSIVE FirstAlternatives(_)
FirstAlternatives(results) ==
  IF results = <<>>
  THEN <<>>
  ELSE Head(Head(results)).transcript \o FirstAlternatives(Tail(results))

(***************************************************************************)
(* C20: a speech result event sets the input text to the first-alternative *)
(* transcripts of its results, concatenated in order; what the field held  *)
(* is replaced, and nothing else changes.                                  *)
(***************************************************************************)
C20_ResultReplacesInput ==
  [][lastOp' = "onresult" =>
       /\ inputText' \in {FirstAlternatives(event) : event \in SpeechEvents}
       /\ inputText' \in {<<"o", "k">>, <<"A", "b">>}
       /\ UNCHANGED <<version, messages, isLoading, attachments, searchTerm,
                      isSearchActive, ocrMode, detectionMode, isListening,
                      recognizer, isSettingsOpen, theme, themeStorage, storage,
                      inflight, uploads, now>>]_vars

\* a result event arrived while the recognizer was stopping after a send
C20_Witness ==
  /\ lastOp = "onresult"
  /\ inputText = <<"o", "k">>
  /\ isListening
  /\ recognizer = "stopping"
  /\ isLoading

(***************************************************************************)
(* C21                                                                     *)
(***************************************************************************)
\* the text holds the three characters 4, 1, 3 in a row
Holds413(text) ==
  \E i \in 1..(Len(text) - 2) :
    text[i] = "4" /\ text[i + 1] = "1" /\ text[i + 2] = "3"

\* the message of the error the API threw, empty when it has none
ThrownMessage(outcome) ==
  IF outcome.message = None THEN <<>> ELSE outcome.message[1]

\* C21: whenever the API call fails, generateGeminiResponse rejects with one
\* of two fixed messages: the files-too-large message when the message of
\* the error holds "413", the communication-error message otherwise; the
\* message of the original error is never the one the caller receives.
C21_FailureMapsToFixedMessage ==
  lastOp = "thrown" =>
    /\ inflight[1].outcome.kind = "error"
    /\ inflight[1].settled.kind = "rejected"
    /\ inflight[1].settled.text \in {ErrTooLargeText, ErrCommText}
    /\ inflight[1].settled.text =
         (IF Holds413(ThrownMessage(inflight[1].outcome))
          THEN ErrTooLargeText ELSE ErrCommText)
    /\ inflight[1].settled.text # ThrownMessage(inflight[1].outcome)

\* an error whose message holds "413" inside a longer text was mapped
C21_Witness ==
  /\ lastOp = "thrown"
  /\ inflight[1].outcome.message = Some(<<"e", "4", "1", "3", "e">>)
  /\ inflight[1].settled.text = ErrTooLargeText

(***************************************************************************)
(* C22                                                                     *)
(***************************************************************************)
\* the list is one model message with the given text
OneModelMessage(msgs, text) ==
  /\ Len(msgs) = 1
  /\ msgs[1].role = RoleModel
  /\ msgs[1].text = text

\* a cancelled clear leaves the list, the stored history and search alone
CancelKeepsAll ==
  lastOp' = "clearCancelled" =>
    UNCHANGED <<messages, storage, isSearchActive, searchTerm>>

\* C22 as stated: a confirmed clear leaves exactly one model message, the
\* history-cleared notice, with search closed and its query empty; a
\* cancelled clear changes neither the list, the stored history nor search.
C22_Original ==
  [][/\ lastOp' = "clearHistory" =>
          /\ OneModelMessage(messages', ClearedText)
          /\ ~isSearchActive'
          /\ searchTerm' = <<>>
     /\ CancelKeepsAll]_vars

\* C22, amended: a confirmed clear leaves exactly one model message, with
\* search closed and its query empty; the message is the history-cleared
\* notice in the base revision and the welcome message of a fresh start in
\* the themed revision, which removes the stored history and reloads the
\* page. A cancelled clear changes neither the list, the stored history nor
\* search.
C22_ClearLeavesOneModelMessage ==
  [][/\ lastOp' = "clearHistory" =>
          /\ OneModelMessage(messages',
                             IF version = "base" THEN ClearedText
                             ELSE WelcomeText("themed"))
          /\ ~isSearchActive'
          /\ searchTerm' = <<>>
     /\ CancelKeepsAll]_vars

\* the themed revision has cleared a conversation: the reload shows the
\* welcome message
C22_Witness ==
  /\ lastOp = "clearHistory"
  /\ version = "themed"
  /\ OneModelMessage(messages, WelcomeText("themed"))
  /\ ~isSearchActive
  /\ searchTerm = <<>>

(***************************************************************************)
(* C23                                                                     *)
(***************************************************************************)
RECURSIVE JoinPieces(_)
JoinPieces(pieces) ==
  IF pieces = <<>> THEN "" ELSE Head(pieces) \o JoinPieces(Tail(pieces))

\* the part of a data URL after its first comma
AfterFirstComma(url) ==
  LET c == CHOOSE i \in 1..Len(url) : url[i] = "," /\ \A j \in 1..(i - 1) : url[j] # ","
  IN JoinPieces(SubSeq(url, c + 1, Len(url)))

\* name, type and encoded data of the readable files of a selection, in
\* selection order
RECURSIVE EncodedReadable(_)
EncodedReadable(files) ==
  IF files = <<>> THEN <<>>
  ELSE (IF Head(files).readable
        THEN <<[name |-> Head(files).name,
                mimeType |-> Head(files).type,
                data |-> AfterFirstComma(DataUrl(Head(files)))]>>
        ELSE <<>>) \o EncodedReadable(Tail(files))

\* name, type and data of the attachments of a list
Encoded(atts) ==
  [i \in 1..Len(atts) |->
     [name |-> atts[i].name, mimeType |-> atts[i].mimeType, data |-> atts[i].data]]

\* this step ends the read of the last file of upload k
CompletesUpload(k) ==
  /\ k \in 1..Len(uploads)
  /\ Len(uploads[k].files) = 1
  /\ Len(uploads') = Len(uploads) - 1
  /\ \A i \in 1..Len(uploads') : uploads'[i] = uploads[IF i < k THEN i ELSE i + 1]

\* C23: when the read of the last file of a selection settles, the pending
\* attachments are the ones that were pending, unchanged and in place,
\* followed by one attachment for each file of the selection whose read
\* succeeded, in selection order, each with the part of its data URL after
\* the first comma as data; files whose read failed add nothing. A read
\* that settles before the last file of its selection changes no pending
\* attachment.
C23_ReadableFilesAppended ==
  [][lastOp' \in {"fileRead", "fileSkipped"} =>
       \/ \E k \in 1..Len(uploads) :
            /\ CompletesUpload(k)
            /\ SubSeq(attachments', 1, Len(attachments)) = attachments
            /\ Encoded(SubSeq(attachments', Len(attachments) + 1, Len(attachments')))
                 = EncodedReadable(uploads[k].selected)
       \/ /\ Len(uploads') = Len(uploads)
          /\ attachments' = attachments]_vars

\* a selection whose only file could not be read has just completed while
\* an attachment was pending: the attachment is still there
C23_Witness ==
  /\ lastOp = "fileSkipped"
  /\ uploads = <<>>
  /\ Encoded(attachments) = EncodedReadable(<<FilePicture>>)

(***************************************************************************)
(* C24                                                                     *)
(***************************************************************************)
\* C24: in every reachable state no two user messages are adjacent, every
\* model message other than the first of the list comes right after a user
\* message (so a user message is followed by at most one model message),
\* and when the busy flag is false the last message is a model message.
C24_TurnsAlternate ==
  /\ \A i \in 1..(Len(messages) - 1) :
       ~(messages[i].role = RoleUser /\ messages[i + 1].role = RoleUser)
  /\ \A i \in 2..Len(messages) :
       messages[i].role = RoleModel => messages[i - 1].role = RoleUser
  /\ (~isLoading /\ messages # <<>>) => messages[Len(messages)].role = RoleModel

(***************************************************************************)
(* C25                                                                     *)
(***************************************************************************)
\* C25: in every reachable state the ids of the messages of the list are
\* pairwise distinct.
C25_IdsDistinct ==
  \A i \in 1..Len(messages) : \A j \in 1..Len(messages) :
    i # j => messages[i].id # messages[j].id

(***************************************************************************)
(* C26                                                                     *)
(***************************************************************************)
\* a sequence of messages: each element has the fields of a Message and a
\* role
IsMessageList(msgs) ==
  \A i \in 1..Len(msgs) :
    /\ {"id", "role", "text", "timestamp"} \subseteq DOMAIN msgs[i]
    /\ msgs[i].role \in {RoleUser, RoleModel}

\* C26: whatever string is stored under the history key, the conversation
\* in memory once the page has started is a list of messages.
C26_StartupYieldsMessageList ==
  lastOp # "unmounted" => IsMessageList(messages)

(***************************************************************************)
(* C27                                                                     *)
(***************************************************************************)
\* the request of a send is pending, the input is still empty, and the
\* recognizer that was stopped has not delivered its end event
SentWhileListening ==
  /\ lastOp = "send"
  /\ isLoading
  /\ inputText = <<>>
  /\ recognizer = "stopping"

\* C27: an accepted send empties the input text and, made while the
\* recognizer is listening, stops it; a result event that the stopped
\* recognizer delivers after the send leaves the input text empty.
C27_SentTextStaysOut ==
  [][/\ AcceptedSend =>
          /\ inputText' = <<>>
          /\ (isListening /\ recognizer = "active") => recognizer' = "stopping"
     /\ (SentWhileListening /\ lastOp' = "onresult") => inputText' = <<>>]_vars

(***************************************************************************)
(* C28                                                                     *)
(***************************************************************************)
\* C28: an accepted send puts exactly the attachments pending at that
\* moment on its user message and into its request and leaves the reads in
\* progress as they are; a read that settles changes neither the messages
\* nor the requests in flight, and when it is the last of its selection the
\* attachments it encoded are added behind the pending ones, where the next
\* accepted send takes them from.
C28_LateAttachmentsKeptForNextSend ==
  [][/\ AcceptedSend =>
          /\ messages'[Len(messages')].attachments = Some(attachments)
          /\ LET contents == inflight'[Len(inflight')].contents
             IN PartData(InlineParts(contents[Len(contents)])) = InlineData(attachments)
          /\ uploads' = uploads
     /\ lastOp' \in {"fileRead", "fileSkipped"} =>
          /\ messages' = messages
          /\ inflight' = inflight
          /\ storage' = storage
          /\ \A k \in 1..Len(uploads) :
               CompletesUpload(k) =>
                 /\ IsPrefix(attachments, attachments')
                 /\ Encoded(SubSeq(attachments', Len(attachments) + 1, Len(attachments')))
                      = EncodedReadable(uploads[k].selected)]_vars

\* the themed revision has just sent a text while the second file of a
\* selection was still being read: the message carries no attachment and
\* the read goes on
C28_Witness ==
  /\ version = "themed"
  /\ lastOp = "send"
  /\ isLoading
  /\ attachments = <<>>
  /\ Len(uploads) = 1
  /\ uploads[1].files = <<FileNote>>
  /\ uploads[1].got = <<NewAttachment(FilePicture)>>
  /\ messages[Len(messages)].role = RoleUser
  /\ messages[Len(messages)].attachments = Some(<<>>)

====
